---------------------------- MODULE Spec2Model ----------------------------
(***************************************************************************)
(* PQC migration risk model: the core functions of core_logic.py, the      *)
(* configuration globals of config.py they read, the coverage models of    *)
(* scenarios.py, and the drivers of simulation.py.                         *)
(*                                                                         *)
(* Numbers.  The program computes in binary64.  The model keeps            *)
(*   - log10-scale quantities (capability, cost, growth, noise) as         *)
(*     integers counting 1/LogUnit (hundredths),                           *)
(*   - probabilities and metrics (RQR, coverage) as integers counting      *)
(*     1/Scale, and weights as integers counting 1/WUnit,                  *)
(*   - CAS as integers counting 1/(WUnit*Scale), so that the weighted sum  *)
(*     of calculate_cas is exact.                                          *)
(* Rounding of binary64 below these resolutions is not modelled, with one  *)
(* exception: where np.exp overflows to inf and where 1.0 + np.exp(z)      *)
(* rounds to 1.0 are binary64 facts and are kept at their true arguments   *)
(* (ExpOverflowArg, AbsorbArg), because they decide whether a logistic     *)
(* value is exactly 0.0 or exactly 1.0.                                    *)
(***************************************************************************)
EXTENDS Integers, Sequences, FiniteSets, TLC

VARIABLES
  ALPHA,          \* config.ALPHA, the module global calculate_rqr reads
  N_SIMULATIONS,  \* config.N_SIMULATIONS, the module global main rebinds
  YEARS,          \* config.YEARS
  rng,            \* the state of NumPy's global generator: seed and draws consumed
  sweep,          \* test_alpha_sensitivity: position in the loop body and its local
  call,           \* the call of a core function in progress: arguments and outcome
                  \* (the program is single-threaded: nothing else runs meanwhile)
  seeded          \* history: whether the generator is as np.random.seed left it,
                  \* and the first Monte Carlo run made from that state with the
                  \* present seed and parameters

vars == <<ALPHA, N_SIMULATIONS, YEARS, rng, sweep, call, seeded>>

---------------------------------------------------------------------------
(* Units *)

LogUnit == 10^2
Scale == 10^4
WUnit == 10^2
CasUnit == WUnit * Scale

(* Bounds of the model *)

MaxLen == 2
\* config.N_SIMULATIONS (1000) and config.YEARS (15) are scaled down to these
MaxSims == 2
MaxYears == 2
\* seeds 0..MaxSeed, and the draws one generator state may serve
MaxSeed == 1
MaxDraws == 12

---------------------------------------------------------------------------
(* config.py *)

A0_LOG == 5 * LogUnit
DEFAULT_ALPHA == 2
COST_RSA_2048 == 10 * LogUnit
COST_KYBER_512 == 18 * LogUnit
MU_G == LogUnit \div 2
SIGMA_G == LogUnit \div 10
SIGMA_EPSILON == LogUnit \div 20

\* mutant: an Algorithm Strength weight that makes the weights sum to 1.2
WEIGHTS_not_normalised == [w_AS |-> 60, w_KM |-> 25, w_DC |-> 20, w_CAI |-> 15]

WEIGHTS == [w_AS |-> 40, w_KM |-> 25, w_DC |-> 20, w_CAI |-> 15]

---------------------------------------------------------------------------
(* Arithmetic helpers *)

Max(a, b) == IF a >= b THEN a ELSE b
Min(a, b) == IF a <= b THEN a ELSE b

\* a / b rounded to the nearest integer, b > 0, a >= 0
RoundDiv(a, b) == (2 * a + b) \div (2 * b)

Seqs(S, lo, hi) == UNION {[1..n -> S] : n \in lo..hi}

---------------------------------------------------------------------------
(* NumPy: broadcasting of two one-dimensional operands *)

\* the length of the result, or -1 where NumPy raises ValueError
BroadcastShape(n, m) ==
  IF n = m THEN n
  ELSE IF n = 1 THEN m
  ELSE IF m = 1 THEN n
  ELSE -1

\* element i of operand a stretched to the broadcast shape
At(a, i) == IF Len(a) = 1 THEN a[1] ELSE a[i]

---------------------------------------------------------------------------
(* NumPy: np.exp and the logistic expression on binary64 *)

\* np.exp(z) is inf for z > ln(DBL_MAX) = 709.78..
ExpOverflowArg == 70978
\* np.exp(z) <= 2^-53 for z <= -36.7368.., and then 1.0 + np.exp(z) = 1.0
AbsorbArg == 3673

\* e^q * Scale for q = 0..10, rounded
EPow == <<10000, 27183, 73891, 200855, 545982, 1484132, 4034288,
          10966332, 29809580, 81030839, 220264658>>

\* the Taylor series of e^(x/LogUnit), 0 <= x < LogUnit, counted in 1/(100*Scale)
RECURSIVE TaylorSum(_, _, _)
TaylorSum(x, term, k) ==
  IF term = 0 THEN 0
  ELSE term + TaylorSum(x, RoundDiv(term * x, LogUnit * k), k + 1)

\* e^(x/LogUnit) * Scale for 0 <= x < LogUnit
ExpFrac(x) == RoundDiv(TaylorSum(x, 100 * Scale, 1), 100)

\* e^(z/LogUnit) * Scale for 0 <= z < Len(EPow) * LogUnit
ExpFix(z) ==
  LET q == z \div LogUnit
      f == ExpFrac(z % LogUnit)
      hi == EPow[q + 1] \div Scale
      lo == EPow[q + 1] % Scale
  IN  hi * f + RoundDiv(lo * f, Scale)

\* Scale / (1 + e^(z/LogUnit)) rounded to the model's resolution
LogisticFix(z) ==
  IF z >= Len(EPow) * LogUnit THEN 0
  ELSE IF z >= 0 THEN RoundDiv(Scale * Scale, Scale + ExpFix(z))
  ELSE IF -z >= Len(EPow) * LogUnit THEN Scale
  ELSE RoundDiv(Scale * Scale, Scale + RoundDiv(Scale * Scale, ExpFix(-z)))

\* mutant: 1.0 / np.exp(z), the "1.0 +" of the denominator forgotten
LogisticNoOne(z) ==
  IF z > ExpOverflowArg THEN 0
  ELSE IF z >= 0 THEN Min(Scale, RoundDiv(Scale * Scale, ExpFix(Min(z, 10 * LogUnit))))
  ELSE ExpFix(Min(-z, 10 * LogUnit))

\* 1.0 / (1.0 + np.exp(z)): 0 and Scale stand for exactly 0.0 and exactly 1.0,
\* every other binary64 value is rounded into 1 .. Scale - 1
Logistic(z) ==
  IF z > ExpOverflowArg THEN 0
  ELSE IF z < -AbsorbArg THEN Scale
  ELSE Max(1, Min(Scale - 1, LogisticFix(z)))

\* np.exp(z) overflows (RuntimeWarning: overflow encountered in exp)
ExpOverflows(z) == z > ExpOverflowArg

---------------------------------------------------------------------------
(* core_logic.py *)

\* the shape of config.A0_LOG + (g * t) + epsilon_series
capability_shape(t, epsilon_series) == BroadcastShape(Len(t), Len(epsilon_series))

\* mutant: the noise is not added
capability_without_noise(t, g, epsilon_series) ==
  [i \in 1..capability_shape(t, epsilon_series) |-> A0_LOG + (g * At(t, i))]

calculate_adversarial_capability(t, g, epsilon_series) ==
  [i \in 1..capability_shape(t, epsilon_series) |->
     A0_LOG + (g * At(t, i)) + At(epsilon_series, i)]

\* mutant: np.exp(-config.ALPHA + delta), a sum where the product belongs
rqr_alpha_added(capability_log, cost_log) ==
  [i \in 1..Len(capability_log) |->
     LET delta == capability_log[i] - cost_log
     IN  Logistic(-(ALPHA * LogUnit) + delta)]

\* mutant: np.exp(config.ALPHA * delta), the sign of the exponent lost
rqr_sign_lost(capability_log, cost_log) ==
  [i \in 1..Len(capability_log) |->
     LET delta == capability_log[i] - cost_log
     IN  Logistic(ALPHA * delta)]

calculate_rqr(capability_log, cost_log) ==
  [i \in 1..Len(capability_log) |->
     LET delta == capability_log[i] - cost_log
     IN  Logistic(-ALPHA * delta)]

\* Key Management and Crypto-Agility baselines
m_km == (85 * Scale) \div 100
m_cai == (75 * Scale) \div 100

\* the shape of the weighted sum of calculate_cas
cas_shape(rqr, coverage_pct) == BroadcastShape(Len(rqr), Len(coverage_pct))

\* mutant: the two baselines exchanged
cas_baselines_swapped(rqr, coverage_pct) ==
  [i \in 1..cas_shape(rqr, coverage_pct) |->
     LET m_as == Max(0, Scale - At(rqr, i))
         m_dc == At(coverage_pct, i)
         w == WEIGHTS
     IN  w.w_AS * m_as + w.w_KM * m_cai + w.w_DC * m_dc + w.w_CAI * m_km]

\* mutant: m_as = 1 - rqr, without np.maximum
cas_without_maximum(rqr, coverage_pct) ==
  [i \in 1..cas_shape(rqr, coverage_pct) |->
     LET m_as == Scale - At(rqr, i)
         m_dc == At(coverage_pct, i)
         w == WEIGHTS
     IN  w.w_AS * m_as + w.w_KM * m_km + w.w_DC * m_dc + w.w_CAI * m_cai]

\* mutant: m_as = rqr, the risk not inverted into a strength
cas_risk_not_inverted(rqr, coverage_pct) ==
  [i \in 1..cas_shape(rqr, coverage_pct) |->
     LET m_as == Max(0, At(rqr, i))
         m_dc == At(coverage_pct, i)
         w == WEIGHTS
     IN  w.w_AS * m_as + w.w_KM * m_km + w.w_DC * m_dc + w.w_CAI * m_cai]

\* mutant: the hybrid risk model of the comment in calculate_tci_scenarios, the
\* strength metric scaled by the coverage
cas_hybrid_risk(rqr, coverage_pct) ==
  [i \in 1..cas_shape(rqr, coverage_pct) |->
     LET m_as == Max(0, ((Scale - At(rqr, i)) * At(coverage_pct, i)) \div Scale)
         m_dc == At(coverage_pct, i)
         w == WEIGHTS
     IN  w.w_AS * m_as + w.w_KM * m_km + w.w_DC * m_dc + w.w_CAI * m_cai]

calculate_cas(rqr, coverage_pct) ==
  [i \in 1..cas_shape(rqr, coverage_pct) |->
     LET m_as == Max(0, Scale - At(rqr, i))
         m_dc == At(coverage_pct, i)
         w == WEIGHTS
     IN  w.w_AS * m_as + w.w_KM * m_km + w.w_DC * m_dc + w.w_CAI * m_cai]

---------------------------------------------------------------------------
(* scenarios.py *)

\* the times handed to get_migration_coverage count 1/TUnit of a year
TUnit == 10^2

\* a / b rounded to the nearest integer, b > 0, a of either sign
SignedRoundDiv(a, b) == IF a >= 0 THEN RoundDiv(a, b) ELSE -RoundDiv(-a, b)

\* 0.18 * t
Linear018(t) == (18 * (Scale \div 100) * t) \div TUnit

\* mutant: the logistic curve without its ceiling L_max
Aggressive_without_L_max(t) ==
  LET k == (8 * LogUnit) \div 10
      t0 == 4 * TUnit
  IN  Logistic(SignedRoundDiv(-k * (t - t0), TUnit))

\* L_max / (1 + np.exp(-k * (t - t0))): exactly L_max where the denominator
\* is exactly 1.0, exactly 0.0 where np.exp overflows
Aggressive(t) ==
  LET L_max == (98 * Scale) \div 100
      k == (8 * LogUnit) \div 10
      t0 == 4 * TUnit
  IN  RoundDiv(L_max * Logistic(SignedRoundDiv(-k * (t - t0), TUnit)), Scale)

\* mutant: the rate without the cap np.minimum(1.0, .)
Conservative_uncapped(t) == Linear018(t)

\* np.minimum(1.0, 0.18 * t)
Conservative(t) == Min(Scale, Linear018(t))

\* mutant: the delay of the test suite, t_delay = 2
Late_Start_delay_2(t) ==
  LET t_delay == 2 * TUnit
  IN  IF t >= t_delay THEN Min(Scale, Linear018(t - t_delay)) ELSE 0

\* L_t stays 0 outside mask = t_array >= t_delay
Late_Start(t) ==
  LET t_delay == 3 * TUnit
  IN  IF t >= t_delay THEN Min(Scale, Linear018(t - t_delay)) ELSE 0

\* mutant: a name that matches no branch falls through to the Conservative one
coverage_unknown_as_conservative(scenario_name, t_array) ==
  [i \in 1..Len(t_array) |->
     IF scenario_name = "Aggressive" THEN Aggressive(t_array[i])
     ELSE IF scenario_name = "Late_Start" THEN Late_Start(t_array[i])
     ELSE Conservative(t_array[i])]

get_migration_coverage(scenario_name, t_array) ==
  [i \in 1..Len(t_array) |->
     IF scenario_name = "Aggressive" THEN Aggressive(t_array[i])
     ELSE IF scenario_name = "Conservative" THEN Conservative(t_array[i])
     ELSE IF scenario_name = "Late_Start" THEN Late_Start(t_array[i])
     ELSE 0]

---------------------------------------------------------------------------
(* NumPy: the global generator *)

Seeds == 0..MaxSeed

\* the k-th standard normal deviate of the stream the seed fixes, rounded
Stream(seed, k) == ((seed * 31 + k * 17 + k * k * 7 + 3) % 5) - 2

\* np.random.normal(loc, scale, size) drawn at generator state r
Normal(loc, scale, size, r) ==
  [k \in 1..size |-> loc + scale * Stream(r.seed, r.pos + k - 1)]

Advance(r, n) == [seed |-> r.seed, pos |-> r.pos + n]

---------------------------------------------------------------------------
(* simulation.py: run_monte_carlo *)

\* np.arange(1, years + 1)
arange1(years) == [i \in 1..years |-> i]

\* g_rates: the first N_SIMULATIONS draws
mc_g_rates(r) == Normal(MU_G, SIGMA_G, N_SIMULATIONS, r)

\* mutant: the growth rate of an iteration drawn inside the loop, just before
\* its noise
mc_epsilon_interleaved(r, i) ==
  Normal(0, SIGMA_EPSILON, YEARS, Advance(r, i + (i - 1) * YEARS))

\* epsilon of iteration i (1-based): drawn after the growth rates and after
\* the noise of the iterations before it
mc_epsilon(r, i) ==
  Normal(0, SIGMA_EPSILON, YEARS, Advance(r, N_SIMULATIONS + (i - 1) * YEARS))

mc_adv_cap(r, i) ==
  calculate_adversarial_capability(arange1(YEARS), mc_g_rates(r)[i], mc_epsilon(r, i))

\* draws one run consumes
mc_draws == N_SIMULATIONS + N_SIMULATIONS * YEARS

\* mutant: the two cost constants exchanged
run_monte_carlo_costs_swapped(r) ==
  IF N_SIMULATIONS < 0
  THEN [op |-> "run_monte_carlo", rng0 |-> r, seeded |-> FALSE, raised |-> TRUE,
        t_array |-> <<>>, rqr_rsa_all |-> <<>>, rqr_kyber_all |-> <<>>]
  ELSE [op |-> "run_monte_carlo", rng0 |-> r, seeded |-> FALSE, raised |-> FALSE,
        t_array |-> arange1(YEARS),
        rqr_rsa_all |->
          [i \in 1..N_SIMULATIONS |-> calculate_rqr(mc_adv_cap(r, i), COST_KYBER_512)],
        rqr_kyber_all |->
          [i \in 1..N_SIMULATIONS |-> calculate_rqr(mc_adv_cap(r, i), COST_RSA_2048)]]

run_monte_carlo_result(r) ==
  IF N_SIMULATIONS < 0
  THEN \* np.zeros((N_SIMULATIONS, YEARS)) raises ValueError
       [op |-> "run_monte_carlo", rng0 |-> r, seeded |-> FALSE, raised |-> TRUE, t_array |-> <<>>,
        rqr_rsa_all |-> <<>>, rqr_kyber_all |-> <<>>]
  ELSE [op |-> "run_monte_carlo", rng0 |-> r, seeded |-> FALSE, raised |-> FALSE,
        t_array |-> arange1(YEARS),
        rqr_rsa_all |->
          [i \in 1..N_SIMULATIONS |-> calculate_rqr(mc_adv_cap(r, i), COST_RSA_2048)],
        rqr_kyber_all |->
          [i \in 1..N_SIMULATIONS |-> calculate_rqr(mc_adv_cap(r, i), COST_KYBER_512)]]

---------------------------------------------------------------------------
(* NumPy: np.mean and nan *)

\* nan: the mean of an empty slice, and every arithmetic result with a nan in it
NaN == -(10^9)

RECURSIVE SumSeq(_)
SumSeq(a) == IF Len(a) = 0 THEN 0 ELSE a[1] + SumSeq(Tail(a))

HasNaN(a) == \E i \in 1..Len(a) : a[i] = NaN

\* np.mean(a), rounded to the resolution of a
np_mean(a) ==
  IF Len(a) = 0 \/ HasNaN(a) THEN NaN ELSE SignedRoundDiv(SumSeq(a), Len(a))

\* np.mean(rows, axis=0) of an n x years array
np_mean_axis0(rows, n, years) ==
  [j \in 1..years |-> np_mean([i \in 1..n |-> rows[i][j]])]

\* calculate_cas where the risk series may hold nan: np.maximum(0, 1 - nan),
\* and every sum it enters, is nan
cas_of_mean(rqr_mean, coverage) ==
  IF HasNaN(rqr_mean)
  THEN [j \in 1..cas_shape(rqr_mean, coverage) |-> NaN]
  ELSE calculate_cas(rqr_mean, coverage)

---------------------------------------------------------------------------
(* simulation.py: calculate_tci_scenarios *)

\* mutant: the list without its last scenario
scenarios_without_late_start == <<"Aggressive", "Conservative">>

scenarios == <<"Aggressive", "Conservative", "Late_Start">>

\* a time axis of whole years, in the unit of get_migration_coverage
InTUnit(t_array) == [i \in 1..Len(t_array) |-> t_array[i] * TUnit]

tci_coverage(sc, t_array) == get_migration_coverage(sc, InTUnit(t_array))

\* calculate_cas raises ValueError where the mean risk and the time axis do
\* not broadcast
tci_raises(t_array, rqr_kyber_mean) ==
  BroadcastShape(Len(rqr_kyber_mean), Len(t_array)) = -1

calculate_tci_scenarios(t_array, rqr_kyber_mean) ==
  [sc \in {scenarios[x] : x \in 1..Len(scenarios)} |->
     LET coverage == tci_coverage(sc, t_array)
         cas_series == cas_of_mean(rqr_kyber_mean, coverage)
         tci_score == np_mean(cas_series)
     IN  [cas_series |-> cas_series, tci |-> tci_score]]

---------------------------------------------------------------------------
(* simulation.py: run_simulation *)

\* config_dict.get(key, default)
Get(config_dict, key, default) ==
  IF key \in DOMAIN config_dict THEN config_dict[key] ELSE default

\* the parameters run_simulation extracts; n_iterations is <<>> for None
\* mutant: config_dict['n_simulations'] taken before the argument n_iterations
sim_params_config_first(config_dict, n_iterations) ==
  [n_sims |-> IF "n_simulations" \in DOMAIN config_dict
              THEN config_dict["n_simulations"]
              ELSE IF n_iterations # <<>> THEN n_iterations[1] ELSE N_SIMULATIONS,
   years |-> Get(config_dict, "years", YEARS),
   mu_g |-> Get(config_dict, "mu_g", MU_G),
   sigma_g |-> Get(config_dict, "sigma_g", SIGMA_G),
   sigma_epsilon |-> Get(config_dict, "sigma_epsilon", SIGMA_EPSILON),
   cost_kyber |-> Get(config_dict, "cost_kyber_512", COST_KYBER_512)]

\* mutant: the default iteration count is the one config.py was imported with,
\* not config.N_SIMULATIONS as it is at the call
sim_params_import_time_default(config_dict, n_iterations) ==
  [n_sims |-> IF n_iterations # <<>> THEN n_iterations[1]
              ELSE Get(config_dict, "n_simulations", MaxSims),
   years |-> Get(config_dict, "years", YEARS),
   mu_g |-> Get(config_dict, "mu_g", MU_G),
   sigma_g |-> Get(config_dict, "sigma_g", SIGMA_G),
   sigma_epsilon |-> Get(config_dict, "sigma_epsilon", SIGMA_EPSILON),
   cost_kyber |-> Get(config_dict, "cost_kyber_512", COST_KYBER_512)]

sim_params(config_dict, n_iterations) ==
  [n_sims |-> IF n_iterations # <<>> THEN n_iterations[1]
              ELSE Get(config_dict, "n_simulations", N_SIMULATIONS),
   years |-> Get(config_dict, "years", YEARS),
   mu_g |-> Get(config_dict, "mu_g", MU_G),
   sigma_g |-> Get(config_dict, "sigma_g", SIGMA_G),
   sigma_epsilon |-> Get(config_dict, "sigma_epsilon", SIGMA_EPSILON),
   cost_kyber |-> Get(config_dict, "cost_kyber_512", COST_KYBER_512)]

\* the loop "for i in range(n_sims)" from iteration i on (1-based), the
\* generator at r: the rows it fills and the generator it leaves
RECURSIVE sim_loop(_, _, _, _)
sim_loop(i, p, g_rates, r) ==
  IF i > p.n_sims THEN [rows |-> <<>>, rng |-> r]
  ELSE LET epsilon == Normal(0, p.sigma_epsilon, p.years, r)
           adv_cap == calculate_adversarial_capability(arange1(p.years), g_rates[i], epsilon)
           rest == sim_loop(i + 1, p, g_rates, Advance(r, p.years))
       IN  [rows |-> <<calculate_rqr(adv_cap, p.cost_kyber)>> \o rest.rows,
            rng |-> rest.rng]

\* np.zeros((n_sims, years)) raises ValueError on a negative dimension
sim_raises(p) == p.n_sims < 0 \/ p.years < 0

\* draws one call consumes
sim_draws(p) == IF sim_raises(p) THEN 0 ELSE p.n_sims + p.n_sims * p.years

run_simulation_result(config_dict, n_iterations, r) ==
  LET p == sim_params(config_dict, n_iterations)
  IN  IF sim_raises(p)
      THEN [op |-> "run_simulation", config_dict |-> config_dict,
            n_iterations |-> n_iterations, rng0 |-> r, rng1 |-> r, raised |-> TRUE,
            rqr_kyber_all |-> <<>>, tci |-> NaN, cas_mean |-> NaN, cas_series |-> <<>>]
      ELSE LET g_rates == Normal(p.mu_g, p.sigma_g, p.n_sims, r)
               loop == sim_loop(1, p, g_rates, Advance(r, p.n_sims))
               rqr_kyber_mean == np_mean_axis0(loop.rows, p.n_sims, p.years)
               coverage == [j \in 1..p.years |-> Scale]
               cas_series == cas_of_mean(rqr_kyber_mean, coverage)
               tci == np_mean(cas_series)
           IN  [op |-> "run_simulation", config_dict |-> config_dict,
                n_iterations |-> n_iterations, rng0 |-> r, rng1 |-> loop.rng,
                raised |-> FALSE, rqr_kyber_all |-> loop.rows,
                tci |-> tci, cas_mean |-> tci, cas_series |-> cas_series]

---------------------------------------------------------------------------
(* Inputs *)

TValues == 0..3
GValues == {-MU_G, 0, 1, MU_G}
EpsValues == {-SIGMA_EPSILON, 0, SIGMA_EPSILON}
\* capabilities and costs: equal, one apart, at the edges of the binary64
\* regimes of the logistic for ALPHA = 2, and far apart
CapValues == {0, 9 * LogUnit, 10 * LogUnit, 11 * LogUnit, 1837 + 10 * LogUnit,
              400 * LogUnit, 800 * LogUnit}
CostValues == {0, COST_RSA_2048, COST_KYBER_512, 400 * LogUnit}
RqrValues == {0, Scale \div 4, Scale \div 2, Scale, (5 * Scale) \div 4}
CoverageValues == {0, (3 * Scale) \div 10, (7 * Scale) \div 10, Scale}
alpha_values == {1, 2, 3}

\* scenario names: the three of scenarios.py, and names no branch matches
ScenarioNames == {"Aggressive", "Conservative", "Late_Start", "aggressive", "Unknown"}
\* years, whole and fractional, in 1/TUnit: the simulation's horizon 1..15, the
\* times of the test suite, and the edges of the binary64 regimes of Aggressive
TimeValues == {-884 * TUnit, -883 * TUnit, -TUnit, 0, TUnit \div 2, TUnit, 19 * (TUnit \div 10),
               2 * TUnit, 21 * (TUnit \div 10), 3 * TUnit, 4 * TUnit, 5 * TUnit,
               6 * TUnit, 8 * TUnit, 9 * TUnit, 12 * TUnit, 15 * TUnit,
               499 * (TUnit \div 10), 50 * TUnit}

\* whole years of a time axis handed to calculate_tci_scenarios
YearValues == {1, 4, 6, 15}
\* config_dict: partial records of the keys of config.DEFAULT_CONFIG
ConfigDicts ==
  {<<>>}
    \cup {("years" :> y) : y \in -1..MaxYears}
    \cup {("n_simulations" :> n) : n \in 0..MaxSims}
    \cup {("mu_g" :> 2 * MU_G), ("sigma_g" :> 0), ("sigma_epsilon" :> 0),
          ("cost_kyber_512" :> COST_RSA_2048), ("alpha" :> 3),
          ("n_simulations" :> 1) @@ ("years" :> 1),
          ("weights" :> [AS |-> 25, KM |-> 25, DC |-> 25, CAI |-> 25]),
          ("alpha" :> 3) @@ ("cost_kyber_512" :> COST_RSA_2048),
          ("a0_log" :> 9 * LogUnit) @@ ("cost_kyber_512" :> COST_RSA_2048)}
\* n_iterations: <<>> for None
IterationInputs == {<<>>} \cup {<<n>> : n \in -1..MaxSims}

TInputs == Seqs(TValues, 0, MaxLen)
EpsInputs == Seqs(EpsValues, 0, MaxLen)
CapInputs == Seqs(CapValues, 1, MaxLen)
RqrInputs == Seqs(RqrValues, 1, MaxLen)
CoverageInputs == Seqs(CoverageValues, 1, MaxLen)
TimeInputs == Seqs(TimeValues, 0, MaxLen)
YearInputs == Seqs(YearValues, 0, MaxLen)

---------------------------------------------------------------------------
(* State machine *)

Init ==
  /\ ALPHA = DEFAULT_ALPHA
  /\ N_SIMULATIONS = MaxSims
  /\ YEARS = MaxYears
  /\ rng = [seed |-> 0, pos |-> 0]
  /\ sweep = [pc |-> "idle", original_alpha |-> DEFAULT_ALPHA]
  /\ call = [op |-> "none"]
  /\ seeded = [fresh |-> FALSE, first |-> <<>>, runs |-> 0]

CallCapability ==
  /\ call.op = "none"
  /\ \E t \in TInputs, g \in GValues, eps \in EpsInputs :
       /\ call' = [op |-> "calculate_adversarial_capability",
                   t |-> t, g |-> g, epsilon_series |-> eps,
                   raised |-> capability_shape(t, eps) = -1,
                   ret |-> IF capability_shape(t, eps) = -1 THEN <<>>
                           ELSE calculate_adversarial_capability(t, g, eps)]
       /\ UNCHANGED <<ALPHA, N_SIMULATIONS, YEARS, rng, sweep, seeded>>

CallRqr ==
  /\ call.op = "none"
  /\ \E c \in CapInputs, k \in CostValues :
       /\ call' = [op |-> "calculate_rqr", capability_log |-> c, cost_log |-> k,
                   overflow |-> \E i \in 1..Len(c) : ExpOverflows(-ALPHA * (c[i] - k)),
                   ret |-> calculate_rqr(c, k)]
       /\ UNCHANGED <<ALPHA, N_SIMULATIONS, YEARS, rng, sweep, seeded>>

CallCas ==
  /\ call.op = "none"
  /\ \E r \in RqrInputs, c \in CoverageInputs :
       /\ call' = [op |-> "calculate_cas", rqr |-> r, coverage_pct |-> c,
                   raised |-> cas_shape(r, c) = -1,
                   ret |-> IF cas_shape(r, c) = -1 THEN <<>> ELSE calculate_cas(r, c)]
       /\ UNCHANGED <<ALPHA, N_SIMULATIONS, YEARS, rng, sweep, seeded>>

CallCoverage ==
  /\ call.op = "none"
  /\ \E name \in ScenarioNames, t \in TimeInputs :
       /\ call' = [op |-> "get_migration_coverage", scenario_name |-> name,
                   t_array |-> t, L_t |-> get_migration_coverage(name, t)]
       /\ UNCHANGED <<ALPHA, N_SIMULATIONS, YEARS, rng, sweep, seeded>>

\* parameter_sensitivity.py: original_alpha = config.ALPHA; config.ALPHA = alpha
AlphaOverride ==
  /\ call.op = "none"
  /\ \E a \in alpha_values :
       /\ sweep.pc = "idle"
       /\ sweep' = [pc |-> "overridden", original_alpha |-> ALPHA]
       /\ ALPHA' = a
       /\ seeded' = [seeded EXCEPT !.first = <<>>, !.runs = 0]
       /\ UNCHANGED <<N_SIMULATIONS, YEARS, rng, call>>

\* parameter_sensitivity.py: config.ALPHA = original_alpha
AlphaRestore ==
  /\ call.op = "none"
  /\ sweep.pc = "overridden"
  /\ ALPHA' = sweep.original_alpha
  /\ sweep' = [sweep EXCEPT !.pc = "idle"]
  /\ seeded' = [seeded EXCEPT !.first = <<>>, !.runs = 0]
  /\ UNCHANGED <<N_SIMULATIONS, YEARS, rng, call>>

\* parameter_sensitivity.py: the call of calculate_rqr in the loop body ends
\* with an exception (an interrupt, say); no handler or finally clause
\* encloses it, so test_alpha_sensitivity is left with the override in place
AlphaSweepRaises ==
  /\ call.op = "none"
  /\ sweep.pc = "overridden"
  /\ sweep' = [sweep EXCEPT !.pc = "idle"]
  /\ UNCHANGED <<ALPHA, N_SIMULATIONS, YEARS, rng, call, seeded>>

\* the remembered run, kept while the seed is the one it started from
SameSeed(s) == seeded.first # <<>> /\ seeded.first[1].rng0.seed = s

\* mutant: seeding with the seed in use does not rewind the stream
MainSeed_other_generator ==
  /\ call.op = "none"
  /\ \E s \in Seeds :
       /\ rng' = [seed |-> s, pos |-> IF s = rng.seed THEN rng.pos ELSE 0]
       /\ seeded' = IF SameSeed(s) THEN [seeded EXCEPT !.fresh = TRUE]
                     ELSE [fresh |-> TRUE, first |-> <<>>, runs |-> 0]
       /\ UNCHANGED <<ALPHA, N_SIMULATIONS, YEARS, sweep, call>>

\* main.py: np.random.seed(args.seed)
MainSeed ==
  /\ call.op = "none"
  /\ \E s \in Seeds :
       /\ rng' = [seed |-> s, pos |-> 0]
       /\ seeded' = IF SameSeed(s) THEN [seeded EXCEPT !.fresh = TRUE]
                     ELSE [fresh |-> TRUE, first |-> <<>>, runs |-> 0]
       /\ UNCHANGED <<ALPHA, N_SIMULATIONS, YEARS, sweep, call>>

\* main.py: config.N_SIMULATIONS = args.n_iterations
MainSetIterations ==
  /\ call.op = "none"
  /\ \E n \in -1..MaxSims :
       /\ n # N_SIMULATIONS
       /\ N_SIMULATIONS' = n
       /\ seeded' = [seeded EXCEPT !.first = <<>>, !.runs = 0]
       /\ UNCHANGED <<ALPHA, YEARS, rng, sweep, call>>

\* the history after a Monte Carlo run that returned result and drew n values
AfterRun(result, n) ==
  IF seeded.fresh /\ ~result.raised
  THEN [fresh |-> n = 0,
        first |-> IF seeded.first = <<>> THEN <<result>> ELSE seeded.first,
        runs |-> Min(2, seeded.runs + 1)]
  ELSE [seeded EXCEPT !.fresh = seeded.fresh /\ n = 0]

RunMonteCarlo ==
  /\ call.op = "none"
  /\ rng.pos + Max(0, mc_draws) <= MaxDraws
  /\ call' = [run_monte_carlo_result(rng) EXCEPT !.seeded = seeded.fresh]
  /\ rng' = IF N_SIMULATIONS < 0 THEN rng ELSE Advance(rng, mc_draws)
  /\ seeded' = AfterRun(run_monte_carlo_result(rng), Max(0, mc_draws))
  /\ UNCHANGED <<ALPHA, N_SIMULATIONS, YEARS, sweep>>

CallTciScenarios ==
  /\ call.op = "none"
  /\ \E t \in YearInputs, r \in RqrInputs :
       /\ call' = [op |-> "calculate_tci_scenarios", t_array |-> t,
                   rqr_kyber_mean |-> r, raised |-> tci_raises(t, r),
                   results |-> IF tci_raises(t, r) THEN <<>>
                               ELSE calculate_tci_scenarios(t, r)]
       /\ UNCHANGED <<ALPHA, N_SIMULATIONS, YEARS, rng, sweep, seeded>>

\* mutant: run_simulation rebinds config.N_SIMULATIONS to the count it uses
RunSimulation_rebinds_config ==
  /\ call.op = "none"
  /\ \E d \in ConfigDicts, n \in IterationInputs :
       LET result == run_simulation_result(d, n, rng)
       IN  /\ rng.pos + sim_draws(sim_params(d, n)) <= MaxDraws
           /\ call' = result
           /\ rng' = result.rng1
           /\ seeded' = [seeded EXCEPT !.fresh = seeded.fresh /\ result.rng1 = rng]
           /\ N_SIMULATIONS' = sim_params(d, n).n_sims
           /\ UNCHANGED <<ALPHA, YEARS, sweep>>

RunSimulation ==
  /\ call.op = "none"
  /\ \E d \in ConfigDicts, n \in IterationInputs :
       LET result == run_simulation_result(d, n, rng)
       IN  /\ rng.pos + sim_draws(sim_params(d, n)) <= MaxDraws
           /\ call' = result
           /\ rng' = result.rng1
           /\ seeded' = [seeded EXCEPT !.fresh = seeded.fresh /\ result.rng1 = rng]
           /\ UNCHANGED <<ALPHA, N_SIMULATIONS, YEARS, sweep>>

\* the caller takes the outcome of the last call
Return ==
  /\ call.op # "none"
  /\ call' = [op |-> "none"]
  /\ UNCHANGED <<ALPHA, N_SIMULATIONS, YEARS, rng, sweep, seeded>>

NextCapability == CallCapability \/ Return
NextRqr == CallRqr \/ AlphaOverride \/ AlphaRestore \/ Return
NextSweep == CallRqr \/ AlphaOverride \/ AlphaRestore \/ AlphaSweepRaises \/ Return
NextCas == CallCas \/ Return
NextCoverage == CallCoverage \/ Return
NextTci == CallTciScenarios \/ Return
NextSimulation == MainSeed \/ MainSetIterations \/ RunMonteCarlo \/ RunSimulation \/ Return
NextMonteCarlo == CallRqr \/ MainSeed \/ MainSetIterations \/ RunMonteCarlo \/ Return
NextCore ==
  \/ CallRqr \/ CallCas \/ CallCoverage
  \/ RunMonteCarlo \/ CallTciScenarios \/ RunSimulation
  \/ Return
Next ==
  \/ CallCapability \/ CallRqr \/ CallCas \/ CallCoverage
  \/ AlphaOverride \/ AlphaRestore \/ AlphaSweepRaises
  \/ MainSeed \/ MainSetIterations \/ RunMonteCarlo
  \/ CallTciScenarios \/ RunSimulation
  \/ Return

SpecCapability == Init /\ [][NextCapability]_vars
SpecRqr == Init /\ [][NextRqr]_vars
SpecSweep == Init /\ [][NextSweep]_vars
SpecCas == Init /\ [][NextCas]_vars
SpecCoverage == Init /\ [][NextCoverage]_vars
SpecTci == Init /\ [][NextTci]_vars
SpecSimulation == Init /\ [][NextSimulation]_vars
SpecMonteCarlo == Init /\ [][NextMonteCarlo]_vars
SpecCore == Init /\ [][NextCore]_vars
Spec == Init /\ [][Next]_vars

---------------------------------------------------------------------------
(* Claims *)

InUnit(x) == 0 <= x /\ x <= Scale

\* C1: every value calculate_rqr returns lies in [0,1], and so does every
\* element of both ensembles run_monte_carlo returns.
C1_RqrInUnitInterval ==
  /\ call.op = "calculate_rqr" =>
       \A i \in DOMAIN call.ret : InUnit(call.ret[i])
  /\ (call.op = "run_monte_carlo" /\ ~call.raised) =>
       \A i \in DOMAIN call.rqr_rsa_all : \A j \in DOMAIN call.rqr_rsa_all[i] :
         /\ InUnit(call.rqr_rsa_all[i][j])
         /\ InUnit(call.rqr_kyber_all[i][j])

\* C1 witness: one calculate_rqr call that returns both ends of the interval.
C1_Witness ==
  /\ call.op = "calculate_rqr"
  /\ \E i, j \in DOMAIN call.ret : call.ret[i] = 0 /\ call.ret[j] = Scale

\* C2: where capability equals the cost, calculate_rqr returns 0.5, whatever
\* config.ALPHA is.
C2_HalfAtEquilibrium ==
  call.op = "calculate_rqr" =>
    \A i \in DOMAIN call.ret :
      call.capability_log[i] = call.cost_log => 2 * call.ret[i] = Scale

\* C2 witness: a call at equilibrium under an overridden ALPHA.
C2_Witness ==
  /\ call.op = "calculate_rqr"
  /\ ALPHA # DEFAULT_ALPHA
  /\ \E i \in DOMAIN call.ret : call.capability_log[i] = call.cost_log

\* C3: for positive ALPHA, calculate_rqr is non-decreasing in capability at a
\* fixed cost and non-increasing in cost at a fixed capability.
C3_RqrMonotone ==
  (call.op = "calculate_rqr" /\ ALPHA > 0) =>
    /\ \A i, j \in DOMAIN call.ret :
         call.capability_log[i] <= call.capability_log[j] => call.ret[i] <= call.ret[j]
    /\ \A k \in CostValues : \A i \in DOMAIN call.ret :
         /\ call.cost_log <= k => calculate_rqr(call.capability_log, k)[i] <= call.ret[i]
         /\ k <= call.cost_log => call.ret[i] <= calculate_rqr(call.capability_log, k)[i]

\* C3 witness: a call whose two capabilities and two risks are both in
\* strictly increasing order.
C3_Witness ==
  /\ call.op = "calculate_rqr"
  /\ \E i, j \in DOMAIN call.ret :
       call.capability_log[i] < call.capability_log[j] /\ call.ret[i] < call.ret[j]

\* C4 (as claimed): the logistic is evaluated without overflow and every
\* result is strictly inside (0,1), never exactly 0 or exactly 1.
C4_StableAndStrictlyInside ==
  call.op = "calculate_rqr" =>
    /\ ~call.overflow
    /\ \A i \in DOMAIN call.ret : 0 < call.ret[i] /\ call.ret[i] < Scale

\* C5: with equal lengths calculate_adversarial_capability returns
\* A0_LOG + g*t[i] + eps[i] at every index; with zero noise and g > 0 the
\* result is strictly increasing in t and not below A0_LOG where t >= 1.
C5_CapabilityLinear ==
  (call.op = "calculate_adversarial_capability" /\ Len(call.t) = Len(call.epsilon_series)) =>
    /\ ~call.raised
    /\ Len(call.ret) = Len(call.t)
    /\ \A i \in DOMAIN call.ret :
         call.ret[i] = 5 * LogUnit + call.g * call.t[i] + call.epsilon_series[i]
    /\ ((\A i \in DOMAIN call.epsilon_series : call.epsilon_series[i] = 0) /\ call.g > 0) =>
         /\ \A i, j \in DOMAIN call.ret : call.t[i] < call.t[j] => call.ret[i] < call.ret[j]
         /\ \A i \in DOMAIN call.ret : call.t[i] >= 1 => call.ret[i] >= 5 * LogUnit

\* C5 witness: a zero-noise call with positive growth over two different years.
C5_Witness ==
  /\ call.op = "calculate_adversarial_capability"
  /\ Len(call.t) = Len(call.epsilon_series)
  /\ call.g > 0
  /\ \A i \in DOMAIN call.epsilon_series : call.epsilon_series[i] = 0
  /\ \E i, j \in DOMAIN call.ret : 1 <= call.t[i] /\ call.t[i] < call.t[j]

\* C6 (as claimed): a noise sequence whose length differs from the time
\* axis's makes calculate_adversarial_capability fail; no trajectory comes back.
C6_LengthMismatchRaises ==
  (call.op = "calculate_adversarial_capability" /\ Len(call.t) # Len(call.epsilon_series)) =>
    call.raised

C8_CasFormula ==
  (call.op = "calculate_cas" /\ Len(call.rqr) = Len(call.coverage_pct)) =>
    /\ ~call.raised
    /\ Len(call.ret) = Len(call.rqr)
    /\ \A i \in DOMAIN call.ret :
         100 * call.ret[i] =
           40 * 100 * (IF call.rqr[i] < Scale THEN Scale - call.rqr[i] ELSE 0)
           + 25 * 85 * Scale + 20 * 100 * call.coverage_pct[i] + 15 * 75 * Scale
    /\ (call.rqr = <<Scale>> /\ call.coverage_pct = <<0>>) =>
         call.ret = <<325 * (CasUnit \div 1000)>>

\* C8 witness: the call with RQR = 1 and coverage = 0.
C8_Witness ==
  call.op = "calculate_cas" /\ call.rqr = <<Scale>> /\ call.coverage_pct = <<0>>

\* C9: with every RQR and every coverage in [0,1] and the default weights,
\* every element of the CAS series lies in [0,1].
C9_CasInUnitInterval ==
  ( /\ call.op = "calculate_cas"
    /\ ~call.raised
    /\ \A i \in DOMAIN call.rqr : InUnit(call.rqr[i])
    /\ \A i \in DOMAIN call.coverage_pct : InUnit(call.coverage_pct[i]) ) =>
    \A i \in DOMAIN call.ret : 0 <= call.ret[i] /\ call.ret[i] <= CasUnit

\* C9 witness: a series holding the best case (no risk, full coverage) and
\* the worst case (certain break, no coverage).
C9_Witness ==
  /\ call.op = "calculate_cas"
  /\ call.rqr = <<0, Scale>>
  /\ call.coverage_pct = <<Scale, 0>>

\* C10: at a fixed RQR in [0,1) CAS is strictly increasing in coverage, and
\* at a fixed coverage it is strictly decreasing in RQR over [0,1].
C10_CasStrictlyMonotone ==
  (call.op = "calculate_cas" /\ ~call.raised) =>
    \A i, j \in DOMAIN call.ret :
      LET ri == At(call.rqr, i)
          rj == At(call.rqr, j)
          ci == At(call.coverage_pct, i)
          cj == At(call.coverage_pct, j)
      IN  /\ (ri = rj /\ 0 <= ri /\ ri < Scale /\ ci < cj) => call.ret[i] < call.ret[j]
          /\ (ci = cj /\ InUnit(ri) /\ InUnit(rj) /\ ri < rj) => call.ret[i] > call.ret[j]

\* C10 witness: one risk against two coverages, as numpy broadcasts them.
C10_Witness ==
  /\ call.op = "calculate_cas"
  /\ Len(call.rqr) = 1 /\ call.rqr[1] < Scale
  /\ Len(call.coverage_pct) = 2
  /\ call.coverage_pct[1] < call.coverage_pct[2]

---------------------------------------------------------------------------
(* Claims on the coverage models of scenarios.py *)

IsCoverage(name) == call.op = "get_migration_coverage" /\ call.scenario_name = name

\* C12: Conservative(t) = min(1, 0.18 * t) for every t >= 0: 0 at t = 0, 0.18
\* at t = 1, 0.90 at t = 5, and exactly 1.0 for every t >= 6.
C12_ConservativeLinearCapped ==
  IsCoverage("Conservative") =>
    \A i \in 1..Len(call.t_array) :
      LET t == call.t_array[i]
          L == call.L_t[i]
      IN  t >= 0 =>
            /\ L * 100 * TUnit = Min(100 * TUnit * Scale, 18 * Scale * t)
            /\ t = 0 => L = 0
            /\ t = TUnit => L = (18 * Scale) \div 100
            /\ t = 5 * TUnit => L = (90 * Scale) \div 100
            /\ t >= 6 * TUnit => L = Scale

C12_Witness ==
  /\ IsCoverage("Conservative")
  /\ \E i, j \in 1..Len(call.t_array) :
       /\ call.t_array[i] = 5 * TUnit /\ call.L_t[i] = (90 * Scale) \div 100
       /\ call.t_array[j] >= 6 * TUnit /\ call.L_t[j] = Scale

\* the binary64 regimes of the Aggressive curve: 1 + np.exp(-0.8 * (t - 4)) is
\* exactly 1.0 from year 50 on, np.exp overflows below year -883
AggressiveSaturatesFrom == 50 * TUnit
AggressiveLastInside == 499 * (TUnit \div 10)
AggressiveFirstInside == -883 * TUnit
\* the years over which two values of the curve one half-year apart differ by
\* more than the model's resolution 1/Scale
AggressiveResolved == 12 * TUnit

C14_AggressiveAt3Is049 ==
  IsCoverage("Aggressive") =>
    \A i \in 1..Len(call.t_array) :
      call.t_array[i] = 3 * TUnit => RoundDiv(call.L_t[i], Scale \div 100) = 49

C16_LateStartDelay2 ==
  IsCoverage("Late_Start") =>
    \A i \in 1..Len(call.t_array) :
      LET t == call.t_array[i]
          L == call.L_t[i]
      IN  /\ t <= 2 * TUnit => L = 0
          /\ t \in {3 * TUnit, 4 * TUnit, 5 * TUnit, 6 * TUnit} =>
               L * 100 * TUnit = 18 * Scale * (t - 2 * TUnit)
          /\ t = 21 * (TUnit \div 10) => L > 0
          /\ t >= 8 * TUnit => L > (99 * Scale) \div 100

\* C17: a scenario name that is none of Aggressive, Conservative, Late_Start
\* gives a trajectory of zeros as long as the time axis, and no error.
C17_UnknownScenarioAllZero ==
  (/\ call.op = "get_migration_coverage"
   /\ call.scenario_name \notin {"Aggressive", "Conservative", "Late_Start"}) =>
    /\ Len(call.L_t) = Len(call.t_array)
    /\ \A i \in 1..Len(call.L_t) : call.L_t[i] = 0

C17_Witness ==
  /\ call.op = "get_migration_coverage"
  /\ call.scenario_name = "aggressive"
  /\ Len(call.t_array) = MaxLen
  /\ \A i \in 1..Len(call.t_array) : call.t_array[i] >= 4 * TUnit
  /\ \A i \in 1..Len(call.L_t) : call.L_t[i] = 0

---------------------------------------------------------------------------
(* Claims on the drivers of simulation.py *)

InUnitCas(x) == 0 <= x /\ x <= CasUnit

\* tci is what np.mean gives for the series: nan for an empty series or one
\* with a nan in it, otherwise the sum over the length, rounded
IsMeanOf(tci, series) ==
  IF Len(series) = 0 \/ HasNaN(series) THEN tci = NaN
  ELSE LET d == Len(series) * tci - SumSeq(series)
       IN  tci # NaN /\ 2 * d <= Len(series) /\ -2 * d <= Len(series)

TciOfSeries(tci, series) ==
  /\ IsMeanOf(tci, series)
  /\ (\A j \in 1..Len(series) : InUnitCas(series[j])) => InUnitCas(tci)

\* C11: every TCI calculate_tci_scenarios and run_simulation produce is the
\* arithmetic mean of the CAS series returned with it, and lies in [0, 1]
\* whenever the CAS series does.
C11_TciIsMeanOfCas ==
  /\ (call.op = "run_simulation" /\ ~call.raised) =>
       TciOfSeries(call.tci, call.cas_series)
  /\ (call.op = "calculate_tci_scenarios" /\ ~call.raised) =>
       \A sc \in DOMAIN call.results :
         TciOfSeries(call.results[sc].tci, call.results[sc].cas_series)

IsMonteCarlo == call.op = "run_monte_carlo" /\ ~call.raised

\* C18: run_monte_carlo returns the time axis 1..T and two ensembles of N rows
\* of length T, N = N_SIMULATIONS and T = YEARS as they are at the call; row i
\* of both is the Risk Transform of one capability trajectory, so the Kyber
\* risk is at most the RSA risk at every (i, t), the Kyber cost being at least
\* the RSA cost.
C18_EnsemblesShareCapability ==
  IsMonteCarlo =>
    /\ Len(call.t_array) = YEARS
    /\ \A t \in 1..YEARS : call.t_array[t] = t
    /\ Len(call.rqr_rsa_all) = N_SIMULATIONS
    /\ Len(call.rqr_kyber_all) = N_SIMULATIONS
    /\ COST_KYBER_512 >= COST_RSA_2048
    /\ \A i \in 1..N_SIMULATIONS :
         /\ Len(call.rqr_rsa_all[i]) = YEARS
         /\ Len(call.rqr_kyber_all[i]) = YEARS
         /\ LET adv_cap == mc_adv_cap(call.rng0, i)
            IN  /\ call.rqr_rsa_all[i] = calculate_rqr(adv_cap, COST_RSA_2048)
                /\ call.rqr_kyber_all[i] = calculate_rqr(adv_cap, COST_KYBER_512)
         /\ \A t \in 1..YEARS : call.rqr_kyber_all[i][t] <= call.rqr_rsa_all[i][t]

C18_Witness ==
  /\ IsMonteCarlo
  /\ N_SIMULATIONS = MaxSims /\ YEARS = MaxYears
  /\ \E i \in 1..N_SIMULATIONS, t \in 1..YEARS :
       call.rqr_kyber_all[i][t] < call.rqr_rsa_all[i][t]

\* the value at (i, t) of a row built from the draw at position g_pos as growth
\* rate and the draw at position e_pos as noise of year t
RowValue(seed, g_pos, e_pos, t, mu_g, sigma_g, sigma_epsilon, cost) ==
  LET g == mu_g + sigma_g * Stream(seed, g_pos)
      epsilon == sigma_epsilon * Stream(seed, e_pos)
  IN  Logistic(-ALPHA * ((A0_LOG + g * t + epsilon) - cost))

\* C19: run_monte_carlo and run_simulation take their draws in this order: all
\* N growth rates first, then for iteration 0..N-1 its T values of noise; row i
\* is built from growth rate i and noise sequence i, and no other draw is taken.
C19_DrawOrder ==
  /\ IsMonteCarlo =>
       LET s == call.rng0.seed
           p0 == call.rng0.pos
           N == N_SIMULATIONS
           T == YEARS
       IN  /\ rng = [seed |-> s, pos |-> p0 + N + N * T]
           /\ \A i \in 1..N, t \in 1..T :
                LET g_pos == p0 + (i - 1)
                    e_pos == p0 + N + (i - 1) * T + (t - 1)
                IN  /\ call.rqr_rsa_all[i][t] =
                         RowValue(s, g_pos, e_pos, t, MU_G, SIGMA_G, SIGMA_EPSILON,
                                  COST_RSA_2048)
                    /\ call.rqr_kyber_all[i][t] =
                         RowValue(s, g_pos, e_pos, t, MU_G, SIGMA_G, SIGMA_EPSILON,
                                  COST_KYBER_512)
  /\ (call.op = "run_simulation" /\ ~call.raised) =>
       LET s == call.rng0.seed
           p0 == call.rng0.pos
           p == sim_params(call.config_dict, call.n_iterations)
           N == p.n_sims
           T == p.years
       IN  /\ rng = [seed |-> s, pos |-> p0 + N + N * T]
           /\ Len(call.rqr_kyber_all) = N
           /\ \A i \in 1..N, t \in 1..T :
                call.rqr_kyber_all[i][t] =
                  RowValue(s, p0 + (i - 1), p0 + N + (i - 1) * T + (t - 1), t,
                           p.mu_g, p.sigma_g, p.sigma_epsilon, p.cost_kyber)

\* a run of either driver with at least two iterations of at least two years
C19_Witness ==
  /\ \/ IsMonteCarlo /\ N_SIMULATIONS >= 2 /\ YEARS >= 2
     \/ /\ call.op = "run_simulation" /\ ~call.raised
        /\ Len(call.rqr_kyber_all) >= 2 /\ Len(call.cas_series) >= 2
        /\ "cost_kyber_512" \in DOMAIN call.config_dict
  /\ rng.pos >= call.rng0.pos + 6

---------------------------------------------------------------------------
(* Claims on run_simulation and its inputs *)

IsSimulation == call.op = "run_simulation" /\ ~call.raised

\* the iteration count and the horizon a call of run_simulation is to use
EffectiveSims(d, n_iterations) ==
  IF n_iterations # <<>> THEN n_iterations[1]
  ELSE IF "n_simulations" \in DOMAIN d THEN d["n_simulations"] ELSE N_SIMULATIONS
EffectiveYears(d) == IF "years" \in DOMAIN d THEN d["years"] ELSE YEARS

\* the mean over the ensemble of the risk of year j
EnsembleMean(rows, j) == np_mean([i \in 1..Len(rows) |-> rows[i][j]])

\* CAS under full coverage of a mean risk, with weights w
FullCoverageCas(mean, w_AS, w_KM, w_DC, w_CAI) ==
  IF mean = NaN THEN NaN
  ELSE w_AS * Max(0, Scale - mean) + w_KM * m_km + w_DC * Scale + w_CAI * m_cai

\* the value at (i, t) of a row as RowValue builds it, with the sensitivity
\* alpha and the initial capability a0_log given
RowValueWith(alpha, a0_log, seed, g_pos, e_pos, t, mu_g, sigma_g, sigma_epsilon, cost) ==
  LET g == mu_g + sigma_g * Stream(seed, g_pos)
      epsilon == sigma_epsilon * Stream(seed, e_pos)
  IN  Logistic(-alpha * ((a0_log + g * t + epsilon) - cost))

\* C21: run_simulation accepts a partial record: a field absent from
\* config_dict takes its default, n_iterations when given goes before
\* config_dict['n_simulations'], and the result holds cas_series, the CAS of
\* the ensemble-mean Kyber risk under coverage 1, as long as the horizon, with
\* tci its mean and cas_mean equal to tci.
C21_PartialRecordAndResult ==
  IsSimulation =>
    LET d == call.config_dict
        N == EffectiveSims(d, call.n_iterations)
        T == EffectiveYears(d)
        s == call.rng0.seed
        p0 == call.rng0.pos
    IN  /\ Len(call.rqr_kyber_all) = N
        /\ \A i \in 1..N :
             /\ Len(call.rqr_kyber_all[i]) = T
             /\ \A t \in 1..T :
                  call.rqr_kyber_all[i][t] =
                    RowValue(s, p0 + (i - 1), p0 + N + (i - 1) * T + (t - 1), t,
                             Get(d, "mu_g", MU_G), Get(d, "sigma_g", SIGMA_G),
                             Get(d, "sigma_epsilon", SIGMA_EPSILON),
                             Get(d, "cost_kyber_512", COST_KYBER_512))
        /\ Len(call.cas_series) = T
        /\ \A j \in 1..T :
             call.cas_series[j] =
               FullCoverageCas(EnsembleMean(call.rqr_kyber_all, j),
                               WEIGHTS.w_AS, WEIGHTS.w_KM, WEIGHTS.w_DC, WEIGHTS.w_CAI)
        /\ IsMeanOf(call.tci, call.cas_series)
        /\ call.cas_mean = call.tci

\* n_iterations given together with another n_simulations, and a field absent
C21_Witness ==
  /\ IsSimulation
  /\ call.n_iterations = <<1>>
  /\ "n_simulations" \in DOMAIN call.config_dict
  /\ call.config_dict["n_simulations"] = MaxSims
  /\ Len(call.rqr_kyber_all) = 1
  /\ Len(call.cas_series) = YEARS
  /\ call.tci # NaN

\* C22: every recognised field of the override record takes effect in
\* run_simulation: supplied weights are the ones of the CAS, a supplied alpha
\* is the sensitivity of the Risk Transform, a supplied a0_log is the initial
\* capability.
C22_OverridesTakeEffect ==
  IsSimulation =>
    LET d == call.config_dict
        N == EffectiveSims(d, call.n_iterations)
        T == EffectiveYears(d)
        s == call.rng0.seed
        p0 == call.rng0.pos
    IN  /\ "weights" \in DOMAIN d =>
             \A j \in 1..T :
               call.cas_series[j] =
                 FullCoverageCas(EnsembleMean(call.rqr_kyber_all, j),
                                 d["weights"].AS, d["weights"].KM,
                                 d["weights"].DC, d["weights"].CAI)
        /\ ("alpha" \in DOMAIN d \/ "a0_log" \in DOMAIN d) =>
             \A i \in 1..N, t \in 1..T :
               call.rqr_kyber_all[i][t] =
                 RowValueWith(Get(d, "alpha", ALPHA), Get(d, "a0_log", A0_LOG),
                              s, p0 + (i - 1), p0 + N + (i - 1) * T + (t - 1), t,
                              Get(d, "mu_g", MU_G), Get(d, "sigma_g", SIGMA_G),
                              Get(d, "sigma_epsilon", SIGMA_EPSILON),
                              Get(d, "cost_kyber_512", COST_KYBER_512))

\* C24: a non-positive iteration count or horizon, from the configuration or
\* from n_iterations, makes the driver fail at once; no result is returned
\* and no value is drawn.
C24_NonPositiveRejected ==
  /\ call.op = "run_simulation" =>
       ((EffectiveSims(call.config_dict, call.n_iterations) <= 0
           \/ EffectiveYears(call.config_dict) <= 0)
          => call.raised /\ rng = call.rng0)
  /\ call.op = "run_monte_carlo" =>
       ((N_SIMULATIONS <= 0 \/ YEARS <= 0) => call.raised /\ rng = call.rng0)

---------------------------------------------------------------------------
(* Claims on calculate_tci_scenarios *)

IsTci == call.op = "calculate_tci_scenarios" /\ ~call.raised

ScenarioKeys == {"Aggressive", "Conservative", "Late_Start"}

C26_ScenariosDifferByCoverage ==
  IsTci =>
    /\ \A a \in ScenarioKeys, b \in ScenarioKeys :
         \A j \in 1..Len(call.results[a].cas_series) :
           call.results[a].cas_series[j] - call.results[b].cas_series[j] =
             WEIGHTS.w_DC * (At(tci_coverage(a, call.t_array), j)
                               - At(tci_coverage(b, call.t_array), j))
    /\ LET late == call.results["Late_Start"].tci
           conservative == call.results["Conservative"].tci
       IN  IF Len(call.t_array) = 0 THEN late = NaN /\ conservative = NaN
           ELSE late # NaN /\ conservative # NaN /\ late <= conservative

\* the two coverages differ at some year and the risk is not 0 everywhere
C26_Witness ==
  /\ IsTci
  /\ Len(call.t_array) = MaxLen
  /\ \E j \in 1..Len(call.rqr_kyber_mean) : call.rqr_kyber_mean[j] > 0
  /\ call.results["Late_Start"].tci < call.results["Conservative"].tci
  /\ call.results["Late_Start"].tci > 0

---------------------------------------------------------------------------
(* Claims relating run_simulation to the pipeline of main.py *)

\* C27: from the same generator state and with the same parameters,
\* run_simulation({}) and the pipeline run_monte_carlo, mean of the Kyber
\* ensemble over the iterations, calculate_cas with coverage 1 consume the same
\* N + N*T draws in the same order and give the same mean risk, CAS series and
\* TCI; a run leaves the generator advanced, so a second run that is not
\* re-seeded starts from another state.
C27_SimulationMatchesPipeline ==
  (call.op = "run_simulation" /\ DOMAIN call.config_dict = {}
     /\ call.n_iterations = <<>>) =>
    LET mc == run_monte_carlo_result(call.rng0)
        kyber_mean_risk == [j \in 1..YEARS |-> EnsembleMean(mc.rqr_kyber_all, j)]
        cas_series == cas_of_mean(kyber_mean_risk, [j \in 1..YEARS |-> Scale])
    IN  /\ call.raised = mc.raised
        /\ ~call.raised =>
             /\ call.rng1 = Advance(call.rng0, mc_draws)
             /\ mc_draws = N_SIMULATIONS + N_SIMULATIONS * YEARS
             /\ call.rqr_kyber_all = mc.rqr_kyber_all
             /\ \A j \in 1..YEARS :
                  EnsembleMean(call.rqr_kyber_all, j) = kyber_mean_risk[j]
             /\ call.cas_series = cas_series
             /\ call.tci = np_mean(cas_series)
             /\ rng = call.rng1
             /\ N_SIMULATIONS >= 1 => rng.pos > call.rng0.pos

\* run_simulation({}) has returned, started where np.random.seed left the
\* generator, config.N_SIMULATIONS rebound before
C27_Witness ==
  /\ IsSimulation
  /\ DOMAIN call.config_dict = {} /\ call.n_iterations = <<>>
  /\ call.rng0 = [seed |-> MaxSeed, pos |-> 0]
  /\ N_SIMULATIONS >= 1 /\ N_SIMULATIONS # MaxSims
  /\ Len(call.rqr_kyber_all) = N_SIMULATIONS
  /\ call.tci # NaN

---------------------------------------------------------------------------
(* Frame of the core operations *)

CoreOperations ==
  {"run_monte_carlo", "calculate_tci_scenarios", "run_simulation",
   "calculate_rqr", "calculate_cas", "get_migration_coverage"}

\* the outcome call'.op records follows from the arguments as they are after
\* the call and the parameters and generator as they were before it
ArgumentsIntact ==
  /\ call'.op = "calculate_rqr" =>
       call'.ret = calculate_rqr(call'.capability_log, call'.cost_log)
  /\ (call'.op = "calculate_cas" /\ ~call'.raised) =>
       call'.ret = calculate_cas(call'.rqr, call'.coverage_pct)
  /\ call'.op = "get_migration_coverage" =>
       call'.L_t = get_migration_coverage(call'.scenario_name, call'.t_array)
  /\ (call'.op = "calculate_tci_scenarios" /\ ~call'.raised) =>
       call'.results = calculate_tci_scenarios(call'.t_array, call'.rqr_kyber_mean)
  /\ call'.op = "run_simulation" =>
       call' = run_simulation_result(call'.config_dict, call'.n_iterations, rng)

---------------------------------------------------------------------------
(* The override of ALPHA in the sensitivity sweep *)

\* C28: the override of config.ALPHA in the sweep is always undone: a call of
\* calculate_rqr inside the loop body runs with the alpha of its iteration,
\* and whenever control is outside the loop body, after an iteration or after
\* any exit from test_alpha_sensitivity, an exit by an exception raised in
\* calculate_rqr included, config.ALPHA is the value it had before the
\* override, so that later calls of calculate_rqr use that value.
C28_AlphaAlwaysRestored ==
  /\ sweep.pc = "overridden" => ALPHA \in alpha_values
  /\ sweep.pc = "idle" => ALPHA = sweep.original_alpha
  /\ (sweep.pc = "idle" /\ call.op = "calculate_rqr") =>
       /\ ALPHA = DEFAULT_ALPHA
       /\ call.ret = calculate_rqr(call.capability_log, call.cost_log)

==========================================================================
